---- MODULE Spec2Model ----
(***************************************************************************)
(* Model of rquickjs' function-marshaling layer                            *)
(* (src/value/function/as_func.rs) and of its native-module lifecycle      *)
(* (src/value/module.rs).                                                  *)
(*                                                                         *)
(* Spec        one adapter call: AsFunction::call / AsFunctionMut::call    *)
(*             for one callable shape, one receiver and one argument list. *)
(* ModuleSpec  module creation, instantiation and export operations.       *)
(***************************************************************************)
EXTENDS Integers, Sequences, FiniteSets, TLC

(***************************************************************************)
(* Bounds                                                                  *)
(***************************************************************************)
\* largest number of positional parameters of a generated shape
MaxArity == 2
\* largest number of arguments the engine supplies to one call
MaxArgs == 3
\* largest number of module records the engine holds
MaxModules == 1
\* largest number of entries of one module's export table
MaxExports == 2

VARIABLES
    \* ---- adapter call (as_func.rs) ----
    shape,      \* the callable shape the impl was generated for
    mode,       \* how the engine made the call: "call" or "construct" (with new)
    thisVal,    \* `this: Value` passed by the engine (the new-target when constructing)
    supplied,   \* the arguments the engine supplied (never changes)
    args,       \* `args: ArgsIter`, the elements not yet consumed
    ret,        \* what the native callable returns when invoked
    classProto, \* outcome of Class::<C>::prototype(ctx): 0 = error, else prototype id
    setProtoOk, \* outcome of Object::set_prototype on the produced object
    pc,         \* index of the next step of CallSteps(shape)
    native,     \* native argument list assembled so far
    proto,      \* `let proto` of the constructor adapter (0 = not resolved)
    res,        \* `let res` / the converted return value
    attached,   \* prototype attached to the produced object (0 = none)
    invoked,    \* number of times the native callable ran
    result,     \* the Result returned by call (NoResult while running)
    log         \* history: every conversion and engine operation attempted

callVars == <<shape, mode, thisVal, supplied, args, ret, classProto, setProtoOk, pc,
              native, proto, res, attached, invoked, result, log>>

VARIABLES
    \* ---- native modules (module.rs) ----
    mods,       \* the engine's module records, indexed by handle (ptr)
    mpc,        \* where the single thread of control is
    cur,        \* the module whose creation or instantiation is running (0 = none)
    lastOp      \* the last operation that returned, with its Result

modVars == <<mods, mpc, cur, lastOp>>

VARIABLES
    \* ---- export iterators, the post hook, the loader entry point ----
    iter,       \* one ExportNamesIter / ExportEntriesIter and what it yielded
    func,       \* the function object the adapter was bound to (post hook)
    entry       \* one call of Module::init by the engine's loader

auxVars == <<iter, func, entry>>

vars == <<callVars, modVars, auxVars>>

(***************************************************************************)
(* Engine values, native values, errors and results                        *)
(***************************************************************************)
Val(tag, v) == [tag |-> tag, v |-> v]
Undefined == Val("Undefined", 0)
NoValue == Val("None", 0)

Nat32(ty, n) == [ty |-> ty, n |-> n]
NoNative == Nat32("none", 0)

MkError(kind, from, to, message) ==
    [kind |-> kind, from |-> from, to |-> to, message |-> message]
NoError == MkError("None", "", "", "")

Ok(v) == [ok |-> TRUE, val |-> v, err |-> NoError]
Err(e) == [ok |-> FALSE, val |-> NoValue, err |-> e]
NoResult == [ok |-> FALSE, val |-> NoValue, err |-> NoError]

\* name of the class the Constructor adapter is generated for
CLASS_NAME == "C"

not_enough_args == MkError("FromJs", "args", "args", "Not enough arguments")

\* T::from_js for a positional parameter or a variadic element (an i32-like T)
FromJsArg(v) ==
    IF v.tag = "Int" THEN Ok(Nat32("i32", v.v))
    ELSE Err(MkError("FromJs", v.tag, "i32", ""))

\* S::from_js / T::from_js for the receiver (an object-like T)
FromJsThis(v) ==
    IF v.tag \in {"Object", "Function"} THEN Ok(Nat32("obj", v.v))
    ELSE Err(MkError("FromJs", v.tag, "this", ""))

\* R::into_js for the return value of the native callable
IntoJs(r) ==
    CASE r.ty = "i32" -> Ok(Val("Int", r.n))
      [] r.ty = "obj" -> Ok(Val("Object", r.n))
      [] OTHER -> Err(MkError("IntoJs", r.ty, "value", ""))

\* Function::get_prototype of a new-target function: function 2 has none
GetPrototype(f) == IF f.v = 1 THEN 10 + f.v ELSE 0

\* Class::<C>::prototype(ctx)
ClassPrototype == classProto

ProtoError == MkError("Proto", "prototype", "object", "")

(***************************************************************************)
(* Callable shapes: as_fn_impls! generates one impl per                    *)
(* kind x (-ctx/+ctx) x (-this/+this) x (-varargs/+varargs) x type list.   *)
(***************************************************************************)
\* the type identifiers of `as_fn_impls! { , A, A B, ... }`
TypeParams == <<"A", "B", "D", "E", "G", "H">>

Kinds == {"Method", "Constructor", "Fn", "FnMut"}

TypeLists == {SubSeq(TypeParams, 1, n) : n \in 0..MaxArity}

Shapes == [kind : Kinds, ctx : BOOLEAN, this : BOOLEAN, varargs : BOOLEAN,
           t : TypeLists]

\* `(@one $($t:tt)*) => { 1 }`
One(t) == 1

RECURSIVE SumOne(_)
SumOne(ts) == IF ts = <<>> THEN 0 ELSE One(Head(ts)) + SumOne(Tail(ts))

\* LEN as it would be if the receiver and the capture were counted too
LEN_counting_all(sh) ==
    SumOne(sh.t) + (IF sh.this THEN 1 ELSE 0) + (IF sh.varargs THEN 1 ELSE 0)

\* `const LEN: u32 = 0 $(+ as_fn_impls!(@one $t))*;`
LEN(sh) == SumOne(sh.t)

\* $ap: the preceded arg types, `[Ctx<'js>]`, `[This<T>]`
Preceded(sh) ==
    (IF sh.ctx THEN <<"ctx">> ELSE <<>>) \o (IF sh.this THEN <<"this">> ELSE <<>>)

\* $as: the succeeded arg types, `[Args<X>]`
Succeeded(sh) == IF sh.varargs THEN <<"varargs">> ELSE <<>>

\* the argument expressions of `self(...)`, in source order
ArgExprs(sh) ==
    Preceded(sh) \o [i \in 1..Len(sh.t) |-> "arg"] \o Succeeded(sh)

\* call as it would be if the receiver were converted after the arguments
CallSteps_receiver_last(sh) ==
    CASE sh.kind = "Method" ->
            (IF sh.ctx THEN <<"ctx">> ELSE <<>>) \o [i \in 1..Len(sh.t) |-> "arg"]
                \o Succeeded(sh) \o <<"self">>
                \o (IF sh.this THEN <<"this">> ELSE <<>>) \o <<"invoke", "into_js">>
      [] sh.kind = "Constructor" ->
            <<"proto">> \o (IF sh.ctx THEN <<"ctx">> ELSE <<>>)
                \o [i \in 1..Len(sh.t) |-> "arg"] \o Succeeded(sh)
                \o (IF sh.this THEN <<"this">> ELSE <<>>)
                \o <<"invoke", "into_js", "check">>
      [] OTHER ->
            (IF sh.ctx THEN <<"ctx">> ELSE <<>>) \o [i \in 1..Len(sh.t) |-> "arg"]
                \o Succeeded(sh) \o (IF sh.this THEN <<"this">> ELSE <<>>)
                \o <<"invoke", "into_js">>

\* the steps of `call` as they would be if the Constructor shapes took no
\* receiver parameter
CallSteps_constructor_without_receiver(sh) ==
    CASE sh.kind = "Method" ->
            <<"self">> \o ArgExprs(sh) \o <<"invoke", "into_js">>
      [] sh.kind = "Constructor" ->
            <<"proto">> \o ArgExprs([sh EXCEPT !.this = FALSE])
                \o <<"invoke", "into_js", "check">>
      [] OTHER ->
            ArgExprs(sh) \o <<"invoke", "into_js">>

\* the steps of `call` as they would be if the Constructor resolved the
\* prototype after evaluating the arguments
CallSteps_proto_after_args(sh) ==
    CASE sh.kind = "Method" ->
            <<"self">> \o ArgExprs(sh) \o <<"invoke", "into_js">>
      [] sh.kind = "Constructor" ->
            ArgExprs(sh) \o <<"proto", "invoke", "into_js", "check">>
      [] OTHER ->
            ArgExprs(sh) \o <<"invoke", "into_js">>

\* the steps of `call`, in evaluation order
CallSteps(sh) ==
    CASE sh.kind = "Method" ->
            <<"self">> \o ArgExprs(sh) \o <<"invoke", "into_js">>
      [] sh.kind = "Constructor" ->
            <<"proto">> \o ArgExprs(sh) \o <<"invoke", "into_js", "check">>
      [] OTHER ->
            ArgExprs(sh) \o <<"invoke", "into_js">>

(***************************************************************************)
(* Inputs of one call                                                      *)
(***************************************************************************)
ArgValues == {Val("Int", 1), Val("Int", 2), Val("Str", 3)}

ThisValues == {Undefined, Val("Object", 5), Val("Function", 1), Val("Function", 2)}

NativeRets == {Nat32("i32", 7), Nat32("obj", 8), Nat32("bad", 9)}

ArgSeqs == UNION {[1..n -> ArgValues] : n \in 0..MaxArgs}

Event(ev, slot, idx, val) == [ev |-> ev, slot |-> slot, idx |-> idx, val |-> val]

NoArgs == [self |-> NoNative, ctx |-> FALSE, this |-> NoNative,
           pos |-> <<>>, var |-> <<>>, hasVar |-> FALSE]

InitCall ==
    /\ shape \in Shapes
    /\ mode \in {"call", "construct"}
    /\ thisVal \in ThisValues
    \* only a construct-capable function is called with new, and the engine
    \* then passes the new-target function as receiver
    /\ (mode = "construct" => shape.kind = "Constructor" /\ thisVal.tag = "Function")
    /\ supplied \in ArgSeqs
    /\ args = supplied
    /\ ret \in NativeRets
    /\ classProto \in {0, 20}
    /\ setProtoOk \in BOOLEAN
    /\ (shape.kind # "Constructor" => classProto = 20 /\ setProtoOk)
    /\ pc = 1
    /\ native = NoArgs
    /\ proto = 0
    /\ res = NoValue
    /\ attached = 0
    /\ invoked = 0
    /\ result = NoResult
    /\ log = <<>>

inputs == <<shape, mode, thisVal, supplied, ret, classProto, setProtoOk>>

Running == result = NoResult /\ pc <= Len(CallSteps(shape))

At(step) == Running /\ CallSteps(shape)[pc] = step

(***************************************************************************)
(* Steps of call                                                           *)
(***************************************************************************)
\* Constructor: `let proto = match &this { ... }?;`
ResolveProto ==
    /\ At("proto")
    /\ LET construct == thisVal.tag = "Function"
           p == IF construct THEN GetPrototype(thisVal) ELSE ClassPrototype
       IN /\ log' = Append(log, Event(IF construct THEN "get_prototype"
                                       ELSE "class_prototype", "proto", 0, thisVal))
          /\ IF p = 0
             THEN /\ result' = Err(ProtoError)
                  /\ UNCHANGED <<proto, pc>>
             ELSE /\ proto' = p
                  /\ pc' = pc + 1
                  /\ UNCHANGED result
    /\ UNCHANGED <<modVars, auxVars, inputs, args, native, res, attached, invoked>>

\* Method: `S::from_js(ctx, this.clone())?`
ConvertSelf ==
    /\ At("self")
    /\ LET r == FromJsThis(thisVal)
       IN /\ log' = Append(log, Event("from_js", "self", 0, thisVal))
          /\ IF r.ok
             THEN /\ native' = [native EXCEPT !.self = r.val]
                  /\ pc' = pc + 1
                  /\ UNCHANGED result
             ELSE /\ result' = Err(r.err)
                  /\ UNCHANGED <<native, pc>>
    /\ UNCHANGED <<modVars, auxVars, inputs, args, proto, res, attached, invoked>>

\* `(@arg $ctx $this $args Ctx<'js>) => { $ctx }`
PassCtx ==
    /\ At("ctx")
    /\ native' = [native EXCEPT !.ctx = TRUE]
    /\ pc' = pc + 1
    /\ UNCHANGED <<modVars, auxVars, inputs, args, proto, res, attached, invoked, result, log>>

\* `(@arg $ctx $this $args This<T>) => { T::from_js($ctx, $this).map(This)? }`
ConvertThis ==
    /\ At("this")
    /\ LET r == FromJsThis(thisVal)
       IN /\ log' = Append(log, Event("from_js", "this", 0, thisVal))
          /\ IF r.ok
             THEN /\ native' = [native EXCEPT !.this = r.val]
                  /\ pc' = pc + 1
                  /\ UNCHANGED result
             ELSE /\ result' = Err(r.err)
                  /\ UNCHANGED <<native, pc>>
    /\ UNCHANGED <<modVars, auxVars, inputs, args, proto, res, attached, invoked>>

\* the positional step as it would be with `args.next().unwrap_or(undefined)`
ConvertArg_default_missing ==
    /\ At("arg")
    /\ LET v == IF args = <<>> THEN Undefined ELSE Head(args)
           r == FromJsArg(v)
       IN /\ args' = IF args = <<>> THEN args ELSE Tail(args)
          /\ log' = Append(log, Event("from_js", "arg", Len(native.pos) + 1, v))
          /\ IF r.ok
             THEN /\ native' = [native EXCEPT !.pos = Append(@, r.val)]
                  /\ pc' = pc + 1
                  /\ UNCHANGED result
             ELSE /\ result' = Err(r.err)
                  /\ UNCHANGED <<native, pc>>
    /\ UNCHANGED <<modVars, auxVars, inputs, proto, res, attached, invoked>>

\* `$t::from_js(ctx, args.next().ok_or_else(not_enough_args)?)?`
ConvertArg ==
    /\ At("arg")
    /\ IF args = <<>>
       THEN /\ result' = Err(not_enough_args)
            /\ log' = Append(log, Event("next", "arg", Len(native.pos) + 1, NoValue))
            /\ UNCHANGED <<args, native, pc>>
       ELSE LET r == FromJsArg(Head(args))
            IN /\ args' = Tail(args)
               /\ log' = Append(log, Event("from_js", "arg", Len(native.pos) + 1,
                                           Head(args)))
               /\ IF r.ok
                  THEN /\ native' = [native EXCEPT !.pos = Append(@, r.val)]
                       /\ pc' = pc + 1
                       /\ UNCHANGED result
                  ELSE /\ result' = Err(r.err)
                       /\ UNCHANGED <<native, pc>>
    /\ UNCHANGED <<modVars, auxVars, inputs, proto, res, attached, invoked>>

\* the collection as it would be with `filter_map(|arg| X::from_js(ctx, arg).ok())`
RECURSIVE Collect_skipping_failures(_, _, _)
Collect_skipping_failures(rest, acc, evs) ==
    IF rest = <<>>
    THEN [r |-> Ok(NoValue), items |-> acc, rest |-> rest, evs |-> evs]
    ELSE LET c == FromJsArg(Head(rest))
             e == Append(evs, Event("from_js", "var", Len(acc) + 1, Head(rest)))
         IN Collect_skipping_failures(Tail(rest),
                IF c.ok THEN Append(acc, c.val) ELSE acc, e)

\* `.map(|arg| X::from_js($ctx, arg)).collect::<Result<_>>()`: the elements
\* are converted in order and the first failure ends the collection
RECURSIVE Collect(_, _, _)
Collect(rest, acc, evs) ==
    IF rest = <<>>
    THEN [r |-> Ok(NoValue), items |-> acc, rest |-> rest, evs |-> evs]
    ELSE LET c == FromJsArg(Head(rest))
             e == Append(evs, Event("from_js", "var", Len(acc) + 1, Head(rest)))
         IN IF c.ok
            THEN Collect(Tail(rest), Append(acc, c.val), e)
            ELSE [r |-> Err(c.err), items |-> acc, rest |-> Tail(rest), evs |-> e]

\* `(@arg $ctx $this $args Args<X>) => { $args.map(..).collect::<Result<_>>().map(Args)? }`
CollectVarargs ==
    /\ At("varargs")
    /\ LET c == Collect(args, <<>>, <<>>)
       IN /\ args' = c.rest
          /\ log' = log \o c.evs
          /\ IF c.r.ok
             THEN /\ native' = [native EXCEPT !.var = c.items, !.hasVar = TRUE]
                  /\ pc' = pc + 1
                  /\ UNCHANGED result
             ELSE /\ result' = Err(c.r.err)
                  /\ UNCHANGED <<native, pc>>
    /\ UNCHANGED <<modVars, auxVars, inputs, proto, res, attached, invoked>>

\* the invocation as it would be if arguments left in the cursor of a shape
\* without variadic capture were an error
Invoke_rejecting_surplus ==
    /\ At("invoke")
    /\ IF args # <<>> /\ ~shape.varargs
       THEN /\ result' = Err(MkError("FromJs", "args", "args", "Too many arguments"))
            /\ UNCHANGED <<invoked, log, pc>>
       ELSE /\ invoked' = invoked + 1
            /\ log' = Append(log, Event("invoke", "fn", 0, NoValue))
            /\ pc' = pc + 1
            /\ UNCHANGED result
    /\ UNCHANGED <<modVars, auxVars, inputs, args, native, proto, res, attached>>

\* `self(...)`: the native callable runs with the assembled arguments
Invoke ==
    /\ At("invoke")
    /\ invoked' = invoked + 1
    /\ log' = Append(log, Event("invoke", "fn", 0, NoValue))
    /\ pc' = pc + 1
    /\ UNCHANGED <<modVars, auxVars, inputs, args, native, proto, res, attached, result>>

\* the return conversion as it would be if a value that does not convert made
\* the native callable run again
ConvertReturn_retrying ==
    /\ At("into_js")
    /\ LET r == IntoJs(ret)
       IN /\ log' = Append(log, Event("into_js", "ret", 0, NoValue))
          /\ IF ~r.ok
             THEN /\ result' = Err(r.err)
                  /\ invoked' = invoked + 1
                  /\ UNCHANGED <<res, pc>>
             ELSE /\ res' = r.val
                  /\ pc' = pc + 1
                  /\ result' = IF shape.kind = "Constructor" THEN result ELSE Ok(r.val)
                  /\ UNCHANGED invoked
    /\ UNCHANGED <<modVars, auxVars, inputs, args, native, proto, attached>>

\* `.into_js(ctx)` (Method, Fn, FnMut) and `.into_js(ctx)?` (Constructor)
ConvertReturn ==
    /\ At("into_js")
    /\ LET r == IntoJs(ret)
       IN /\ log' = Append(log, Event("into_js", "ret", 0, NoValue))
          /\ IF ~r.ok
             THEN /\ result' = Err(r.err)
                  /\ UNCHANGED <<res, pc>>
             ELSE /\ res' = r.val
                  /\ pc' = pc + 1
                  /\ result' = IF shape.kind = "Constructor" THEN result ELSE Ok(r.val)
    /\ UNCHANGED <<modVars, auxVars, inputs, args, native, proto, attached, invoked>>

SetPrototypeError == MkError("Exception", "set_prototype", "", "")

\* the object check as it would be if any converted value were accepted
CheckObject_any_value ==
    /\ At("check")
    /\ log' = Append(log, Event("set_prototype", "ret", proto, res))
    /\ IF setProtoOk
       THEN /\ attached' = proto
            /\ result' = Ok(res)
       ELSE /\ result' = Err(SetPrototypeError)
            /\ UNCHANGED attached
    /\ pc' = pc + 1
    /\ UNCHANGED <<modVars, auxVars, inputs, args, native, proto, res, invoked>>

\* Constructor: `if let Value::Object(obj) = &res { obj.set_prototype(&proto)?; Ok(res) }
\*               else { Err(Error::IntoJs { from: "value", to: C::CLASS_NAME, message: None }) }`
CheckObject ==
    /\ At("check")
    /\ IF res.tag = "Object"
       THEN /\ log' = Append(log, Event("set_prototype", "ret", proto, res))
            /\ IF setProtoOk
               THEN /\ attached' = proto
                    /\ result' = Ok(res)
               ELSE /\ result' = Err(SetPrototypeError)
                    /\ UNCHANGED attached
       ELSE /\ log' = Append(log, Event("check", "ret", 0, res))
            /\ result' = Err(MkError("IntoJs", "value", CLASS_NAME, ""))
            /\ UNCHANGED attached
    /\ pc' = pc + 1
    /\ UNCHANGED <<modVars, auxVars, inputs, args, native, proto, res, invoked>>

(***************************************************************************)
(* Native modules: names, the engine's module records                      *)
(***************************************************************************)
\* a name is a sequence of bytes; 0 is the NUL terminator
ExportNames == {<<1>>, <<2>>, <<1, 0, 2>>}

ModuleNames == {<<7>>, <<7, 0>>}

\* native values a hook assigns to an export
ExportValues == {Nat32("i32", 1), Nat32("i32", 2), Nat32("bad", 9)}

NulError == MkError("Nul", "str", "CString", "")
AllocationError == MkError("Allocation", "", "", "")
HookError == MkError("Exception", "hook", "", "")

\* `CString::new(name.as_ref())`: fails when the name holds a NUL byte
CStringNew(name) ==
    IF \E i \in 1..Len(name) : name[i] = 0
    THEN [ok |-> FALSE, s |-> <<>>, err |-> NulError]
    ELSE [ok |-> TRUE, s |-> name, err |-> NoError]

Unassigned == [n \in ExportNames |-> NoNative]

\* the record JS_NewCModule creates, with the bookkeeping of this model
NewModuleDef(name) ==
    [name |-> name,
     exports |-> <<>>,        \* export_entries: <<[name, value]>>
     linked |-> FALSE,        \* the export variables exist (instantiation began)
     callbacks |-> 0,         \* times the engine called the instantiation callback
     beforeRuns |-> 0,        \* times D::before_init was entered
     beforeDone |-> FALSE,    \* D::before_init returned
     created |-> FALSE,       \* Module::new returned
     createdOk |-> FALSE,     \* Module::new returned Ok
     afterRuns |-> 0,         \* times D::after_init was entered
     hookOk |-> FALSE,        \* D::after_init returned Ok
     status |-> 1,            \* what init_fn returned to the engine (1 = nothing yet)
     assigned |-> Unassigned] \* per declared name, the last value Module::set
                              \* reported as assigned

\* find_export_entry: index of the entry named name, 0 when there is none
FindExport(exports, name) ==
    IF \E i \in 1..Len(exports) : exports[i].name = name
    THEN CHOOSE i \in 1..Len(exports) : exports[i].name = name
    ELSE 0

\* JS_AddModuleExport: appends an entry; a duplicate name is rejected with -1
JS_AddModuleExport(def, name) ==
    IF FindExport(def.exports, name) # 0
    THEN [status |-> -1, def |-> def]
    ELSE [status |-> 0,
          def |-> [def EXCEPT !.exports = Append(@, [name |-> name, value |-> Undefined])]]

\* JS_SetModuleExport: stores the value in the entry; an undeclared name is
\* rejected with -1
JS_SetModuleExport(def, name, value) ==
    LET i == FindExport(def.exports, name)
    IN IF i = 0
       THEN [status |-> -1, def |-> def]
       ELSE [status |-> 0, def |-> [def EXCEPT !.exports[i].value = value]]

\* JS_GetModuleExport: the value of the entry, undefined when there is none
JS_GetModuleExport(def, name) ==
    LET i == FindExport(def.exports, name)
    IN IF i = 0 THEN Undefined ELSE def.exports[i].value

\* a returned operation: engine is the status of the engine function it
\* called (0 when it called none), result what it returned to its caller
Op(op, ptr, name, engine, r) ==
    [op |-> op, ptr |-> ptr, name |-> name, engine |-> engine, result |-> r]

NoOp == Op("none", 0, <<>>, 0, NoResult)

(***************************************************************************)
(* Module<BeforeInit>::add, Module::set, Module::get                       *)
(***************************************************************************)
\* Module::<BeforeInit>::add
ModuleAdd(def, name) ==
    LET c == CStringNew(name)
    IN IF ~c.ok
       THEN [result |-> Err(c.err), engine |-> 0, def |-> def]
       ELSE LET e == JS_AddModuleExport(def, c.s)
            IN [result |-> Ok(NoValue), engine |-> e.status, def |-> e.def]

\* Module::set as it would be if it declared a name the table does not have
ModuleSet_declaring(def, name, value) ==
    LET c == CStringNew(name)
        v == IntoJs(value)
    IN IF ~c.ok
       THEN [result |-> Err(c.err), engine |-> 0, def |-> def]
       ELSE IF ~v.ok
       THEN [result |-> Err(v.err), engine |-> 0, def |-> def]
       ELSE LET e == JS_SetModuleExport(JS_AddModuleExport(def, c.s).def, c.s, v.val)
            IN [result |-> Ok(NoValue), engine |-> e.status, def |-> e.def]

\* Module::set as it would be if the value were dropped before the engine call
ModuleSet_dropping_value(def, name, value) ==
    LET c == CStringNew(name)
        v == IntoJs(value)
    IN IF ~c.ok
       THEN [result |-> Err(c.err), engine |-> 0, def |-> def]
       ELSE IF ~v.ok
       THEN [result |-> Err(v.err), engine |-> 0, def |-> def]
       ELSE LET e == JS_SetModuleExport(def, c.s, Undefined)
            IN [result |-> Ok(NoValue), engine |-> e.status, def |-> e.def]

\* Module::set
ModuleSet(def, name, value) ==
    LET c == CStringNew(name)
        v == IntoJs(value)
    IN IF ~c.ok
       THEN [result |-> Err(c.err), engine |-> 0, def |-> def]
       ELSE IF ~v.ok
       THEN [result |-> Err(v.err), engine |-> 0, def |-> def]
       ELSE LET e == JS_SetModuleExport(def, c.s, v.val)
            IN [result |-> Ok(NoValue), engine |-> e.status, def |-> e.def]

\* Module::get
ModuleGet(def, name) ==
    LET c == CStringNew(name)
    IN IF ~c.ok THEN Err(c.err)
       ELSE FromJsArg(JS_GetModuleExport(def, c.s))

InitModules ==
    /\ mods = <<>>
    /\ mpc = "idle"
    /\ cur = 0
    /\ lastOp = NoOp

\* the adapter at rest, for behaviours of the module lifecycle alone
CallAtRest ==
    /\ shape = [kind |-> "Fn", ctx |-> FALSE, this |-> FALSE, varargs |-> FALSE,
                t |-> <<>>]
    /\ mode = "call"
    /\ thisVal = Undefined
    /\ supplied = <<>>
    /\ args = <<>>
    /\ ret = Nat32("i32", 7)
    /\ classProto = 20
    /\ setProtoOk = TRUE
    /\ pc = 3
    /\ native = NoArgs
    /\ proto = 0
    /\ res = Val("Int", 7)
    /\ attached = 0
    /\ invoked = 1
    /\ result = Ok(Val("Int", 7))
    /\ log = <<>>

(***************************************************************************)
(* Module creation: Module::<BeforeInit>::new                              *)
(***************************************************************************)
\* Module::new as it would be without the null check: the null handle is returned
New_null_unchecked(name, allocOk) ==
    /\ mpc = "idle"
    /\ Len(mods) < MaxModules
    /\ LET c == CStringNew(name)
           ptr == Len(mods) + 1
       IN IF ~c.ok
          THEN /\ lastOp' = Op("new", 0, name, 0, Err(c.err))
               /\ UNCHANGED <<mods, mpc, cur>>
          ELSE IF ~allocOk
          THEN /\ lastOp' = Op("new", 0, name, -1, Ok(Nat32("module", 0)))
               /\ UNCHANGED <<mods, mpc, cur>>
          ELSE /\ mods' = Append(mods, NewModuleDef(c.s))
               /\ cur' = ptr
               /\ mpc' = "new"
               /\ UNCHANGED lastOp
    /\ UNCHANGED <<callVars, auxVars>>

\* `CString::new(..)?`, `JS_NewCModule(..)`, `if ptr.is_null() { return Err(Allocation) }`
New(name, allocOk) ==
    /\ mpc = "idle"
    /\ Len(mods) < MaxModules
    /\ LET c == CStringNew(name)
           ptr == Len(mods) + 1
       IN IF ~c.ok
          THEN /\ lastOp' = Op("new", 0, name, 0, Err(c.err))
               /\ UNCHANGED <<mods, mpc, cur>>
          ELSE IF ~allocOk
          THEN /\ lastOp' = Op("new", 0, name, -1, Err(AllocationError))
               /\ UNCHANGED <<mods, mpc, cur>>
          ELSE /\ mods' = Append(mods, NewModuleDef(c.s))
               /\ cur' = ptr
               /\ mpc' = "new"
               /\ UNCHANGED lastOp
    /\ UNCHANGED <<callVars, auxVars>>

\* Module::new as it would be without the call of the before-init hook
BeforeInitCall_skipped ==
    /\ mpc = "new"
    /\ mods' = [mods EXCEPT ![cur].created = TRUE, ![cur].createdOk = TRUE]
    /\ lastOp' = Op("new", cur, mods[cur].name, 0, Ok(Nat32("module", cur)))
    /\ mpc' = "idle"
    /\ cur' = 0
    /\ UNCHANGED <<callVars, auxVars>>

\* `D::before_init(ctx, &module)` is entered
BeforeInitCall ==
    /\ mpc = "new"
    /\ mods' = [mods EXCEPT ![cur].beforeRuns = @ + 1]
    /\ mpc' = "before_init"
    /\ UNCHANGED <<cur, lastOp, callVars, auxVars>>

\* the before-init hook declares an export: `module.add(name)`
Add(name) ==
    /\ mpc = "before_init"
    /\ Len(mods[cur].exports) < MaxExports
    /\ LET a == ModuleAdd(mods[cur], name)
       IN /\ mods' = [mods EXCEPT ![cur] = a.def]
          /\ lastOp' = Op("add", cur, name, a.engine, a.result)
    /\ UNCHANGED <<mpc, cur, callVars, auxVars>>

\* the hook returns and `D::before_init(..)?; Ok(module)` ends Module::new
BeforeInitReturn(ok) ==
    /\ mpc = "before_init"
    /\ mods' = [mods EXCEPT ![cur].beforeDone = TRUE, ![cur].created = TRUE,
                            ![cur].createdOk = ok]
    /\ lastOp' = Op("new", cur, mods[cur].name, 0,
                    IF ok THEN Ok(Nat32("module", cur)) ELSE Err(HookError))
    /\ mpc' = "idle"
    /\ cur' = 0
    /\ UNCHANGED <<callVars, auxVars>>

(***************************************************************************)
(* Instantiation: the engine calls init_fn                                 *)
(***************************************************************************)
\* the engine instantiates a registered module, once: it creates the export
\* variables and calls the callback given to JS_NewCModule
EngineInstantiate(m) ==
    /\ mpc = "idle"
    /\ m \in 1..Len(mods)
    /\ ~mods[m].linked
    /\ mods' = [mods EXCEPT ![m].linked = TRUE, ![m].callbacks = @ + 1]
    /\ cur' = m
    /\ mpc' = "init_fn"
    /\ UNCHANGED <<lastOp, callVars, auxVars>>

\* init_fn: `let module = Module::<AfterInit>::from_module_def(ctx, ptr);`
\*          `D::after_init(ctx, &module)` is entered
AfterInitCall ==
    /\ mpc = "init_fn"
    /\ mods' = [mods EXCEPT ![cur].afterRuns = @ + 1]
    /\ mpc' = "after_init"
    /\ UNCHANGED <<cur, lastOp, callVars, auxVars>>

\* `module.set(name, value)`: in the after-init hook, or later through a
\* handle of an instantiated module
Set(m, name, value) ==
    /\ \/ mpc = "after_init" /\ m = cur
       \/ mpc = "idle" /\ m \in 1..Len(mods) /\ mods[m].status # 1
    /\ LET a == ModuleSet(mods[m], name, value)
       IN /\ mods' = [mods EXCEPT ![m] =
                        IF a.result.ok /\ FindExport(a.def.exports, name) # 0
                        THEN [a.def EXCEPT !.assigned[name] = value]
                        ELSE a.def]
          /\ lastOp' = Op("set", m, name, a.engine, a.result)
    /\ UNCHANGED <<mpc, cur, callVars, auxVars>>

\* the after-init hook returns to init_fn
AfterInitReturn(ok) ==
    /\ mpc = "after_init"
    /\ mods' = [mods EXCEPT ![cur].hookOk = ok]
    /\ mpc' = "init_fn_ret"
    /\ UNCHANGED <<cur, lastOp, callVars, auxVars>>

\* init_fn as it would be if the hook's result were dropped
InitFnReturn_always_zero ==
    /\ mpc = "init_fn_ret"
    /\ mods' = [mods EXCEPT ![cur].status = 0]
    /\ mpc' = "idle"
    /\ cur' = 0
    /\ UNCHANGED <<lastOp, callVars, auxVars>>

\* init_fn: `if let Ok(_) = D::after_init(ctx, &module) { 0 } else { -1 }`
InitFnReturn ==
    /\ mpc = "init_fn_ret"
    /\ mods' = [mods EXCEPT ![cur].status = IF mods[cur].hookOk THEN 0 ELSE -1]
    /\ mpc' = "idle"
    /\ cur' = 0
    /\ UNCHANGED <<lastOp, callVars, auxVars>>

\* `module.get(name)` through a handle of a module being or already instantiated
Get(m, name) ==
    /\ \/ mpc = "after_init" /\ m = cur
       \/ mpc = "idle" /\ m \in 1..Len(mods) /\ mods[m].status # 1
    /\ lastOp' = Op("get", m, name, 0, ModuleGet(mods[m], name))
    /\ UNCHANGED <<mods, mpc, cur, callVars, auxVars>>

(***************************************************************************)
(* Specifications                                                          *)
(***************************************************************************)
\* no iterator
NoIter == [kind |-> "none", ptr |-> 0, count |-> 0, index |-> 0,
           yielded |-> <<>>, ended |-> FALSE]

\* a function object as the engine creates it: not construct-capable, with
\* the default prototype (0)
FreshFunction == [constructor |-> FALSE, prototype |-> 0]

\* no call of Module::init
NoEntry == [pc |-> "none", raw |-> <<>>, name |-> <<>>, n0 |-> 0, ret |-> 0]

AuxAtRest ==
    /\ iter = NoIter
    /\ func = [f |-> FreshFunction, pc |-> "none", proto |-> 0, result |-> NoResult]
    /\ entry = NoEntry

Init == InitCall /\ InitModules /\ AuxAtRest

Next ==
    \/ ResolveProto
    \/ ConvertSelf
    \/ PassCtx
    \/ ConvertThis
    \/ ConvertArg
    \/ CollectVarargs
    \/ Invoke
    \/ ConvertReturn
    \/ CheckObject

Spec == Init /\ [][Next]_vars

ModuleInit == CallAtRest /\ InitModules /\ AuxAtRest

ModuleNext ==
    \/ \E name \in ModuleNames, allocOk \in BOOLEAN : New(name, allocOk)
    \/ BeforeInitCall
    \/ \E name \in ExportNames : Add(name)
    \/ \E ok \in BOOLEAN : BeforeInitReturn(ok)
    \/ \E m \in 1..MaxModules : EngineInstantiate(m)
    \/ AfterInitCall
    \/ \E m \in 1..MaxModules, name \in ExportNames, value \in ExportValues :
          Set(m, name, value)
    \/ \E ok \in BOOLEAN : AfterInitReturn(ok)
    \/ InitFnReturn
    \/ \E m \in 1..MaxModules, name \in ExportNames : Get(m, name)

ModuleSpec == ModuleInit /\ [][ModuleNext]_vars

(***************************************************************************)
(* Use of the before-init handle that Module::new returned                 *)
(***************************************************************************)
\* the entry of name has an export variable (or there is no such entry);
\* entries declared after instantiation have none
HasVariable(def, name) ==
    LET i == FindExport(def.exports, name)
    IN IF i = 0 THEN TRUE ELSE def.exports[i].value # NoValue

\* `module.add(name)` through the Module<BeforeInit> that `new` returned (or a
\* clone of it), at any later time: nothing ties the handle to the phase
AddByHandle(m, name) ==
    /\ mpc = "idle"
    /\ m \in 1..Len(mods)
    /\ mods[m].createdOk
    /\ Len(mods[m].exports) < MaxExports
    /\ LET a == ModuleAdd(mods[m], name)
           n == Len(a.def.exports)
           late == mods[m].linked /\ n > Len(mods[m].exports)
       IN /\ mods' = [mods EXCEPT ![m] =
                        IF late THEN [a.def EXCEPT !.exports[n].value = NoValue]
                        ELSE a.def]
          /\ lastOp' = Op("add", m, name, a.engine, a.result)
    /\ UNCHANGED <<mpc, cur, callVars, auxVars>>

\* the module lifecycle with the before-init handle kept by the caller of new;
\* assignments to entries without an export variable are left out
HandleNext ==
    \/ \E name \in ModuleNames, allocOk \in BOOLEAN : New(name, allocOk)
    \/ BeforeInitCall
    \/ \E name \in ExportNames : Add(name)
    \/ \E ok \in BOOLEAN : BeforeInitReturn(ok)
    \/ \E m \in 1..MaxModules : EngineInstantiate(m)
    \/ AfterInitCall
    \/ \E m \in 1..MaxModules, name \in ExportNames, value \in ExportValues :
          m \in 1..Len(mods) /\ HasVariable(mods[m], name) /\ Set(m, name, value)
    \/ \E ok \in BOOLEAN : AfterInitReturn(ok)
    \/ InitFnReturn
    \/ \E m \in 1..MaxModules, name \in ExportNames : AddByHandle(m, name)

HandleSpec == ModuleInit /\ [][HandleNext]_vars

(***************************************************************************)
(* Export iterators: Module::names, Module::entries                        *)
(***************************************************************************)
AtomError == MkError("FromJs", "atom", "string", "")

\* N::from_atom: the name as the native type N, an error for an atom N cannot
\* hold (here the name <<2>>)
FromAtom(name) == IF name = <<2>> THEN Err(AtomError) ELSE Ok(name)

\* what the hooks of a module did: names declared, then (name, value) pairs assigned
NameSeqs == UNION {[1..n -> ExportNames] : n \in 0..MaxExports}
SetSeqs == UNION {[1..n -> ExportNames \X ExportValues] : n \in 0..MaxExports}

\* the declarations of a before-init hook, in order
RECURSIVE AddAll(_, _)
AddAll(def, names) ==
    IF names = <<>> THEN def
    ELSE AddAll(ModuleAdd(def, Head(names)).def, Tail(names))

\* the assignments of an after-init hook, in order
RECURSIVE SetAll(_, _)
SetAll(def, sets) ==
    IF sets = <<>> THEN def
    ELSE LET name == Head(sets)[1]
             a == ModuleSet(def, name, Head(sets)[2])
         IN SetAll(IF a.result.ok /\ FindExport(a.def.exports, name) # 0
                   THEN [a.def EXCEPT !.assigned[name] = Head(sets)[2]]
                   ELSE a.def,
                   Tail(sets))

\* a module record after creation and instantiation both succeeded
Instantiated(names, sets) ==
    LET d == AddAll([NewModuleDef(<<7>>) EXCEPT !.beforeRuns = 1], names)
        l == [d EXCEPT !.beforeDone = TRUE, !.created = TRUE, !.createdOk = TRUE,
                       !.linked = TRUE, !.callbacks = 1, !.afterRuns = 1]
    IN [SetAll(l, sets) EXCEPT !.hookOk = TRUE, !.status = 0]

IterInit ==
    /\ CallAtRest
    /\ AuxAtRest
    /\ \E names \in NameSeqs, sets \in SetSeqs : mods = <<Instantiated(names, sets)>>
    /\ mpc = "idle"
    /\ cur = 0
    /\ lastOp = NoOp

\* ExportNamesIter { module, count: JS_GetModuleExportEntriesCount(ptr), index: 0 }
Names(m) ==
    /\ mpc = "idle"
    /\ m \in 1..Len(mods)
    /\ mods[m].status # 1
    /\ iter' = [kind |-> "names", ptr |-> m, count |-> Len(mods[m].exports),
                index |-> 0, yielded |-> <<>>, ended |-> FALSE]
    /\ UNCHANGED <<callVars, modVars, func, entry>>

\* ExportEntriesIter { module, count: JS_GetModuleExportEntriesCount(ptr), index: 0 };
\* taken while every entry has its export variable
Entries(m) ==
    /\ mpc = "idle"
    /\ m \in 1..Len(mods)
    /\ mods[m].status # 1
    /\ \A i \in 1..Len(mods[m].exports) : mods[m].exports[i].value # NoValue
    /\ iter' = [kind |-> "entries", ptr |-> m, count |-> Len(mods[m].exports),
                index |-> 0, yielded |-> <<>>, ended |-> FALSE]
    /\ UNCHANGED <<callVars, modVars, func, entry>>

\* the item made of table entry e: `N::from_atom(atom)`
NameItem(e) == FromAtom(e.name)

\* `N::from_atom(name).and_then(|name| T::from_js(ctx, value).map(|value| (name, value)))`
EntryItem(e) ==
    LET n == FromAtom(e.name)
        v == FromJsArg(e.value)
    IN IF ~n.ok THEN n
       ELSE IF ~v.ok THEN v
       ELSE Ok(<<n.val, v.val>>)

\* ExportNamesIter::next as it would be if it read the count again on each call
NextName_rereading_count ==
    /\ iter.kind = "names"
    /\ mpc = "idle"
    /\ IF iter.index = Len(mods[iter.ptr].exports)
       THEN iter' = [iter EXCEPT !.ended = TRUE]
       ELSE iter' = [iter EXCEPT
                       !.index = @ + 1,
                       !.yielded = Append(@, [idx |-> iter.index,
                           item |-> NameItem(mods[iter.ptr].exports[iter.index + 1])])]
    /\ UNCHANGED <<callVars, modVars, func, entry>>

\* ExportNamesIter::next: `if self.index == self.count { return None }`, entry
\* name at index (0-based), `self.index += 1`, `Some(N::from_atom(atom))`
NextName ==
    /\ iter.kind = "names"
    /\ mpc = "idle"
    /\ IF iter.index = iter.count
       THEN iter' = [iter EXCEPT !.ended = TRUE]
       ELSE iter' = [iter EXCEPT
                       !.index = @ + 1,
                       !.yielded = Append(@, [idx |-> iter.index,
                           item |-> NameItem(mods[iter.ptr].exports[iter.index + 1])])]
    /\ UNCHANGED <<callVars, modVars, func, entry>>

\* ExportEntriesIter::next as it would be if the index advanced only after a
\* successful conversion
NextEntry_stalling_on_error ==
    /\ iter.kind = "entries"
    /\ mpc = "idle"
    /\ IF iter.index = iter.count
       THEN iter' = [iter EXCEPT !.ended = TRUE]
       ELSE LET item == EntryItem(mods[iter.ptr].exports[iter.index + 1])
            IN iter' = [iter EXCEPT
                          !.index = IF item.ok THEN @ + 1 ELSE @,
                          !.yielded = Append(@, [idx |-> iter.index, item |-> item])]
    /\ UNCHANGED <<callVars, modVars, func, entry>>

\* ExportEntriesIter::next: the same with the entry's name and value
NextEntry ==
    /\ iter.kind = "entries"
    /\ mpc = "idle"
    /\ IF iter.index = iter.count
       THEN iter' = [iter EXCEPT !.ended = TRUE]
       ELSE iter' = [iter EXCEPT
                       !.index = @ + 1,
                       !.yielded = Append(@, [idx |-> iter.index,
                           item |-> EntryItem(mods[iter.ptr].exports[iter.index + 1])])]
    /\ UNCHANGED <<callVars, modVars, func, entry>>

\* iteration over an instantiated module whose before-init handle is still
\* in use
IterNext ==
    \/ \E m \in 1..MaxModules : Names(m)
    \/ \E m \in 1..MaxModules : Entries(m)
    \/ NextName
    \/ NextEntry
    \/ \E m \in 1..MaxModules, name \in ExportNames : AddByHandle(m, name)

IterSpec == IterInit /\ [][IterNext]_vars

(***************************************************************************)
(* The engine-facing entry point: Module::init                             *)
(***************************************************************************)
\* raw names the engine passes: NUL-terminated byte strings (no NUL inside)
RawNames == {<<7>>, <<195, 169>>, <<195>>, <<255>>}

\* `CStr::to_str`: the bytes are UTF-8 (sequences of one and two bytes)
RECURSIVE Utf8Ok(_)
Utf8Ok(raw) ==
    IF raw = <<>> THEN TRUE
    ELSE IF raw[1] < 128 THEN Utf8Ok(Tail(raw))
    ELSE IF raw[1] >= 194 /\ raw[1] <= 223
    THEN /\ Len(raw) >= 2
         /\ raw[2] >= 128 /\ raw[2] <= 191
         /\ Utf8Ok(Tail(Tail(raw)))
    ELSE FALSE

\* init is entered: `if let Ok(name) = CStr::from_ptr(name).to_str() { name }
\* else { return ptr::null_mut() }`
EntryCall(raw) ==
    /\ mpc = "idle"
    /\ entry.pc \in {"none", "returned"}
    /\ entry' = IF Utf8Ok(raw)
                THEN [pc |-> "calling", raw |-> raw, name |-> raw,
                      n0 |-> Len(mods), ret |-> 0]
                ELSE [pc |-> "returned", raw |-> raw, name |-> <<>>,
                      n0 |-> Len(mods), ret |-> 0]
    /\ lastOp' = Op("init", 0, raw, 0, NoResult)
    /\ UNCHANGED <<mods, mpc, cur, callVars, iter, func>>

\* `Module::<BeforeInit>::new::<D, _>(ctx, name)` is called
EntryNew(allocOk) ==
    /\ entry.pc = "calling"
    /\ lastOp.op = "init"
    /\ New(entry.name, allocOk)

\* init as it would be if it returned the handle whatever new returned
EntryReturn_unchecked ==
    /\ entry.pc = "calling"
    /\ mpc = "idle"
    /\ lastOp.op = "new"
    /\ entry' = [entry EXCEPT !.pc = "returned",
                              !.ret = IF Len(mods) > entry.n0 THEN Len(mods) ELSE 0]
    /\ UNCHANGED <<callVars, modVars, iter, func>>

\* `if let Ok(module) = .. { module.ptr } else { ptr::null_mut() }`
EntryReturn ==
    /\ entry.pc = "calling"
    /\ mpc = "idle"
    /\ lastOp.op = "new"
    /\ entry' = [entry EXCEPT !.pc = "returned",
                              !.ret = IF lastOp.result.ok THEN lastOp.result.val.n
                                      ELSE 0]
    /\ UNCHANGED <<callVars, modVars, iter, func>>

EntryNext ==
    \/ \E raw \in RawNames : EntryCall(raw)
    \/ \E allocOk \in BOOLEAN : EntryNew(allocOk)
    \/ BeforeInitCall
    \/ \E name \in ExportNames : Add(name)
    \/ \E ok \in BOOLEAN : BeforeInitReturn(ok)
    \/ EntryReturn

EntrySpec == ModuleInit /\ [][EntryNext]_vars

(***************************************************************************)
(* The post-processing hook: AsFunction::post                              *)
(***************************************************************************)
\* post is called for a shape with the function object the adapter was bound to
PostInit ==
    /\ shape \in Shapes
    /\ classProto \in {0, 20}
    /\ shape.kind # "Constructor" => classProto = 20
    /\ mode = "call"
    /\ thisVal = Undefined
    /\ supplied = <<>>
    /\ args = <<>>
    /\ ret = Nat32("i32", 7)
    /\ setProtoOk = TRUE
    /\ pc = 1
    /\ native = NoArgs
    /\ proto = 0
    /\ res = NoValue
    /\ attached = 0
    /\ invoked = 0
    /\ result = NoResult
    /\ log = <<>>
    /\ InitModules
    /\ AuxAtRest

\* the trait's default: `fn post(_ctx, _func) -> Result<()> { Ok(()) }`
PostDefault ==
    /\ shape.kind # "Constructor"
    /\ func.pc = "none"
    /\ func' = [func EXCEPT !.pc = "done", !.result = Ok(NoValue)]
    /\ UNCHANGED <<callVars, modVars, iter, entry>>

\* Constructor post as it would be without `func.set_constructor(true)`
PostSetConstructor_skipped ==
    /\ shape.kind = "Constructor"
    /\ func.pc = "none"
    /\ func' = [func EXCEPT !.pc = "resolve"]
    /\ UNCHANGED <<callVars, modVars, iter, entry>>

\* Constructor: `func.set_constructor(true);`
PostSetConstructor ==
    /\ shape.kind = "Constructor"
    /\ func.pc = "none"
    /\ func' = [func EXCEPT !.f.constructor = TRUE, !.pc = "resolve"]
    /\ UNCHANGED <<callVars, modVars, iter, entry>>

\* `let proto = Class::<C>::prototype(ctx)?;`
PostResolve ==
    /\ func.pc = "resolve"
    /\ IF ClassPrototype = 0
       THEN func' = [func EXCEPT !.pc = "done", !.result = Err(ProtoError)]
       ELSE func' = [func EXCEPT !.pc = "set_prototype", !.proto = ClassPrototype]
    /\ UNCHANGED <<callVars, modVars, iter, entry>>

\* `func.set_prototype(&proto); Ok(())`
PostSetPrototype ==
    /\ func.pc = "set_prototype"
    /\ func' = [func EXCEPT !.f.prototype = func.proto, !.pc = "done",
                            !.result = Ok(NoValue)]
    /\ UNCHANGED <<callVars, modVars, iter, entry>>

PostNext ==
    \/ PostDefault
    \/ PostSetConstructor
    \/ PostResolve
    \/ PostSetPrototype

PostSpec == PostInit /\ [][PostNext]_vars

Done == result # NoResult

(***************************************************************************)
(* Properties of the adapter call                                          *)
(***************************************************************************)
\* the receiver, if the shape takes one, converts
ReceiverConverts ==
    (shape.kind = "Method" \/ shape.this) => FromJsThis(thisVal).ok

\* the prototype of a Constructor call resolves
PrototypeResolves ==
    shape.kind = "Constructor" =>
        (IF thisVal.tag = "Function" THEN GetPrototype(thisVal) ELSE classProto) # 0

\* the first n supplied arguments convert
SuppliedConvert(n) ==
    \A i \in 1..n : i <= Len(supplied) => FromJsArg(supplied[i]).ok

NoConversionBeyondSupplied ==
    \A i \in 1..Len(log) :
        (log[i].slot = "arg" /\ log[i].ev = "from_js") => log[i].idx <= Len(supplied)

\* C1 as stated: a call with fewer than LEN arguments always fails with the
\* argument-arity error "Not enough arguments", and no positional parameter
\* beyond the supplied arguments is converted.
C1_AlwaysArityError ==
    (Done /\ Len(supplied) < LEN(shape)) =>
        /\ result = Err(not_enough_args)
        /\ NoConversionBeyondSupplied

\* C1 amended: a call with fewer than LEN arguments always fails without
\* running the native callable and converts no positional parameter beyond the
\* supplied arguments; its error is the argument-arity error exactly when the
\* prototype resolution (Constructor), the receiver conversion and the
\* conversion of every supplied argument succeed, and the error of the first
\* of those steps that fails otherwise.
C1_ArityErrorAfterEarlierSteps ==
    (Done /\ Len(supplied) < LEN(shape)) =>
        /\ ~result.ok
        /\ invoked = 0
        /\ NoConversionBeyondSupplied
        /\ (result = Err(not_enough_args)) <=>
              (ReceiverConverts /\ PrototypeResolves /\ SuppliedConvert(Len(supplied)))

\* a two-argument callable with a receiver and no context, called with one argument
C1_Witness ==
    /\ Done
    /\ LEN(shape) = 2 /\ shape.this /\ ~shape.ctx
    /\ Len(supplied) = 1
    /\ result = Err(not_enough_args)

Rank(e) ==
    CASE e.slot = "proto" -> 0
      [] e.slot = "self" -> 1
      [] e.slot = "this" -> 2
      [] e.slot = "arg" -> 3
      [] e.slot = "var" -> 4
      [] e.slot = "fn" -> 5
      [] e.ev = "into_js" -> 6
      [] OTHER -> 7

EventOk(e) ==
    CASE e.ev = "get_prototype" -> GetPrototype(e.val) # 0
      [] e.ev = "class_prototype" -> classProto # 0
      [] e.ev = "from_js" /\ e.slot \in {"self", "this"} -> FromJsThis(e.val).ok
      [] e.ev = "from_js" /\ e.slot \in {"arg", "var"} -> FromJsArg(e.val).ok
      [] e.ev = "next" -> FALSE
      [] e.ev = "invoke" -> TRUE
      [] e.ev = "into_js" -> IntoJs(ret).ok
      [] e.ev = "set_prototype" -> setProtoOk
      [] OTHER -> FALSE

EventErr(e) ==
    CASE e.ev \in {"get_prototype", "class_prototype"} -> ProtoError
      [] e.ev = "from_js" /\ e.slot \in {"self", "this"} -> FromJsThis(e.val).err
      [] e.ev = "from_js" /\ e.slot \in {"arg", "var"} -> FromJsArg(e.val).err
      [] e.ev = "next" -> not_enough_args
      [] e.ev = "into_js" -> IntoJs(ret).err
      [] e.ev = "set_prototype" -> SetPrototypeError
      [] OTHER -> MkError("IntoJs", "value", CLASS_NAME, "")

Pulled == Cardinality({i \in 1..Len(log) :
                          log[i].ev = "from_js" /\ log[i].slot \in {"arg", "var"}})

\* C2: the steps of a call happen in the shape's structural order (receiver,
\* positional parameters in declared order, variadic capture, native callable,
\* return conversion); the context consumes nothing; the i-th positional
\* parameter gets the i-th supplied argument and each pull takes one element;
\* the first failing step gives the call's error and nothing runs after it; a
\* failing receiver conversion leaves the cursor untouched.
C2_StepsInStructuralOrder ==
    /\ \A i, j \in 1..Len(log) :
          i < j => \/ Rank(log[i]) < Rank(log[j])
                   \/ /\ Rank(log[i]) = Rank(log[j])
                      /\ log[i].slot \in {"arg", "var"}
                      /\ log[j].idx = log[i].idx + (j - i)
    /\ \A i \in 1..Len(log) :
          /\ (log[i].slot = "arg" /\ log[i].ev = "from_js") =>
                log[i].val = supplied[log[i].idx]
          /\ log[i].slot = "var" => log[i].val = supplied[LEN(shape) + log[i].idx]
          /\ i < Len(log) => EventOk(log[i])
    /\ \A k \in 1..Len(native.pos) : native.pos[k] = FromJsArg(supplied[k]).val
    /\ args = SubSeq(supplied, Pulled + 1, Len(supplied))
    /\ (Done /\ ~result.ok) =>
          /\ log # <<>>
          /\ ~EventOk(log[Len(log)])
          /\ result.err = EventErr(log[Len(log)])
    /\ (Done /\ result.ok) =>
          /\ \A i \in 1..Len(log) : EventOk(log[i])
          /\ result.val = IntoJs(ret).val
    /\ invoked > 0 =>
          /\ native.ctx = shape.ctx
          /\ (shape.kind = "Method") = (native.self # NoNative)
          /\ shape.this = (native.this # NoNative)
          /\ Len(native.pos) = Len(shape.t)
          /\ native.hasVar = shape.varargs
    /\ (Done /\ PrototypeResolves /\ ~ReceiverConverts) =>
          /\ args = supplied
          /\ result = Err(FromJsThis(thisVal).err)

C2_Witness ==
    /\ Done /\ result.ok
    /\ shape.kind = "Method" /\ shape.ctx /\ shape.this /\ shape.varargs
    /\ Len(shape.t) = 2
    /\ Len(native.var) = 1
    /\ native.pos[1] # native.pos[2]

Count(seq, x) == Cardinality({i \in 1..Len(seq) : seq[i] = x})

\* C3: LEN is the number of positional parameters of the shape; the context,
\* the receiver, the Method self-receiver and the variadic capture add nothing:
\* LEN is the number of positional pulls of a call, the number of positional
\* arguments the native callable gets, and the least number of supplied
\* arguments that does not raise the argument-arity error.
C3_LenCountsPositionalOnly ==
    /\ LEN(shape) = Len(shape.t)
    /\ LEN(shape) = Count(CallSteps(shape), "arg")
    /\ LEN(shape) = Len(ArgExprs(shape)) - Count(ArgExprs(shape), "ctx")
                        - Count(ArgExprs(shape), "this")
                        - Count(ArgExprs(shape), "varargs")
    /\ invoked > 0 => Len(native.pos) = LEN(shape)
    /\ result = Err(not_enough_args) => Len(supplied) < LEN(shape)
    /\ (Done /\ Len(supplied) < LEN(shape)) => ~result.ok

C3_Witness ==
    /\ Done /\ result.ok
    /\ shape.kind = "Method" /\ shape.ctx /\ shape.this /\ shape.varargs
    /\ LEN(shape) = 2
    /\ Len(supplied) = 2

\* the supplied arguments after the first LEN
Trailing == SubSeq(supplied, LEN(shape) + 1, Len(supplied))

FirstBad(seq) ==
    CHOOSE i \in 1..Len(seq) :
        /\ ~FromJsArg(seq[i]).ok
        /\ \A k \in 1..(i - 1) : FromJsArg(seq[k]).ok

\* C4: with a variadic capture the native callable gets, after the LEN
\* positional arguments, all remaining arguments converted in their order and
\* the cursor is empty; with none remaining the capture is empty and the call
\* does not fail for that; a trailing argument that does not convert makes
\* the whole call fail with that conversion error.
C4_VariadicCapture ==
    shape.varargs =>
        /\ invoked > 0 =>
              /\ args = <<>>
              /\ Len(supplied) >= LEN(shape)
              /\ native.var = [i \in 1..Len(Trailing) |-> FromJsArg(Trailing[i]).val]
        /\ (Done /\ Len(supplied) = LEN(shape)) =>
              /\ result # Err(not_enough_args)
              /\ (ReceiverConverts /\ PrototypeResolves /\ SuppliedConvert(LEN(shape)))
                    => (invoked = 1 /\ native.var = <<>>)
        /\ (/\ Done
            /\ Len(supplied) > LEN(shape)
            /\ ReceiverConverts /\ PrototypeResolves /\ SuppliedConvert(LEN(shape))
            /\ \E i \in 1..Len(Trailing) : ~FromJsArg(Trailing[i]).ok) =>
              /\ invoked = 0
              /\ result = Err(FromJsArg(Trailing[FirstBad(Trailing)]).err)

C4_Witness ==
    /\ Done /\ result.ok
    /\ shape.varargs /\ LEN(shape) = 1
    /\ Len(native.var) = 2
    /\ native.var[1] # native.var[2]

\* C5: the constructor adapter attaches the statically registered prototype
\* whenever it is called as a plain function, whatever the receiver is, and the
\* new-target's own prototype whenever it is called in construct mode.
C5_PrototypeByCallMode ==
    (shape.kind = "Constructor" /\ attached # 0) =>
        attached = (IF mode = "construct" THEN GetPrototype(thisVal) ELSE classProto)

\* C6: when the constructor's converted return value is not an object the call
\* fails with the into-JS error naming the class, and no prototype is attached
\* or set; when the call returns a value, it is an object and the resolved
\* prototype was attached to it.
C6_ObjectCheck ==
    shape.kind = "Constructor" =>
        /\ (Done /\ res # NoValue /\ res.tag # "Object") =>
              /\ result = Err(MkError("IntoJs", "value", CLASS_NAME, ""))
              /\ attached = 0
              /\ \A i \in 1..Len(log) : log[i].ev # "set_prototype"
        /\ (Done /\ res.tag = "Object") =>
              /\ log[Len(log)].ev = "set_prototype"
              /\ result.ok <=> setProtoOk
        /\ result.ok =>
              /\ res.tag = "Object" /\ result.val = res
              /\ proto # 0 /\ attached = proto
        /\ attached # 0 => result.ok

C6_Witness ==
    /\ Done
    /\ shape.kind = "Constructor"
    /\ res = Val("Int", 7)
    /\ result.err.to = CLASS_NAME

(***************************************************************************)
(* Properties of the module lifecycle                                      *)
(***************************************************************************)
\* C7: for every module record, the before-init hook runs exactly once, inside
\* creation (after the record is registered, before creation returns); the
\* after-init hook runs at most once, only from the engine's instantiation
\* callback, and only after the before-init hook has returned.
C7_HooksRunOnce ==
    \A m \in 1..Len(mods) :
        /\ mods[m].beforeRuns <= 1
        /\ mods[m].created => (mods[m].beforeRuns = 1 /\ mods[m].beforeDone)
        /\ ~mods[m].created => (cur = m /\ mpc \in {"new", "before_init"})
        /\ mods[m].beforeDone => mods[m].created
        /\ mods[m].afterRuns <= mods[m].callbacks
        /\ mods[m].callbacks <= 1
        /\ mods[m].afterRuns > 0 => (mods[m].beforeDone /\ mods[m].created)

C7_Witness ==
    \E m \in 1..Len(mods) :
        /\ mods[m].beforeRuns = 1
        /\ mods[m].afterRuns = 1
        /\ mods[m].status = 0
        /\ mods[m].exports # <<>>

\* C8: init_fn returns 0 exactly when the after-init hook returned Ok and -1
\* exactly when it returned an error; the status is set only there, and between
\* the hook's return and init_fn's return no export is touched.
C8_StatusFromHook ==
    [][/\ mpc = "init_fn_ret" =>
            /\ mods'[cur].status = (IF mods[cur].hookOk THEN 0 ELSE -1)
            /\ mods'[cur].exports = mods[cur].exports
            /\ mpc' = "idle"
       /\ \A m \in 1..Len(mods) :
            mods'[m].status # mods[m].status => (mpc = "init_fn_ret" /\ m = cur)
      ]_vars

C8_Witness ==
    \E m \in 1..Len(mods) :
        /\ mods[m].status = -1
        /\ ~mods[m].hookOk
        /\ mods[m].afterRuns = 1
        /\ \E i \in 1..Len(mods[m].exports) : mods[m].exports[i].value # Undefined

\* C9: reading a declared export returns exactly the value most recently
\* assigned to that name, whatever was assigned to other names; a declared
\* export never assigned is undefined.
C9_ExportRoundTrip ==
    \A m \in 1..Len(mods) : \A n \in ExportNames :
        FindExport(mods[m].exports, n) # 0 =>
            /\ mods[m].assigned[n] # NoNative =>
                  ModuleGet(mods[m], n) = Ok(mods[m].assigned[n])
            /\ mods[m].assigned[n] = NoNative =>
                  JS_GetModuleExport(mods[m], n) = Undefined
            /\ (lastOp.op = "get" /\ lastOp.ptr = m /\ lastOp.name = n
                    /\ lastOp.result.ok) =>
                  lastOp.result.val = mods[m].assigned[n]

C9_Witness ==
    /\ lastOp.op = "get" /\ lastOp.name = <<1>>
    /\ lastOp.result = Ok(Nat32("i32", 2))
    /\ \E m \in 1..Len(mods) :
        /\ mods[m].assigned[<<2>>] = Nat32("i32", 1)
        /\ mods[m].exports[1].name = <<1>>

\* C10: no error is swallowed: when the engine rejects an export declaration
\* or assignment, or a name or value does not convert, the operation returns
\* an error.
C10_NoSwallowedError ==
    /\ lastOp.engine < 0 => ~lastOp.result.ok
    /\ (lastOp.op \in {"add", "set", "get"} /\ ~CStringNew(lastOp.name).ok) =>
          ~lastOp.result.ok

\* C11: a creation that returns at once fails: with the name-encoding error,
\* and without any engine call, when the name holds a NUL; with the allocation
\* error when the engine returned no record; in both cases no record is added
\* and the before-init hook does not start. A registered record has a name
\* without NUL.
C11_CreationErrors ==
    [][/\ (mpc = "idle" /\ lastOp' # lastOp /\ lastOp'.op = "new") =>
            /\ mods' = mods
            /\ mpc' = "idle"
            /\ IF CStringNew(lastOp'.name).ok
               THEN lastOp'.result = Err(AllocationError) /\ lastOp'.engine = -1
               ELSE lastOp'.result = Err(NulError) /\ lastOp'.engine = 0
       /\ (mpc = "idle" /\ mpc' = "new") =>
            /\ CStringNew(mods'[cur'].name).ok
            /\ mods'[cur'].beforeRuns = 0
      ]_vars

C11_Witness ==
    /\ lastOp.op = "new"
    /\ lastOp.name = <<7, 0>>
    /\ lastOp.result = Err(NulError)
    /\ mods = <<>>

InHook == mpc \in {"init_fn", "after_init", "init_fn_ret"}

\* C12 as stated: once a module has made the before-init to after-init
\* transition no export declaration takes effect on it, and its phase never
\* returns to before-init.
C12_NoDeclarationAfterTransition ==
    [][\A m \in 1..Len(mods) :
            mods[m].linked =>
                /\ mods'[m].linked
                /\ Len(mods'[m].exports) = Len(mods[m].exports)
      ]_vars

\* C12 amended: the phase of a module never returns to before-init and its
\* instantiation status is set once; the export table grows only by a
\* successful add through a before-init handle, never during instantiation
\* (init_fn and the after-init hook) and never by set; a declaration through
\* the before-init handle that creation returned is not prevented after the
\* transition and then adds an entry.
C12_DeclarationOnlyByAdd ==
    [][\A m \in 1..Len(mods) :
            /\ mods[m].linked => mods'[m].linked
            /\ mods[m].status # 1 => mods'[m].status = mods[m].status
            /\ Len(mods'[m].exports) >= Len(mods[m].exports)
            /\ Len(mods'[m].exports) > Len(mods[m].exports) =>
                  /\ lastOp'.op = "add" /\ lastOp'.ptr = m
                  /\ lastOp'.result.ok /\ lastOp'.engine = 0
                  /\ ~InHook
      ]_vars

\* an entry declared after the transition, through the handle new returned
C12_Witness ==
    \E m \in 1..Len(mods) :
        /\ mods[m].linked /\ mods[m].status = 0
        /\ \E i \in 1..Len(mods[m].exports) : mods[m].exports[i].value = NoValue

\* the item an iterator of the given kind makes of a table entry
ItemOf(kind, e) == IF kind = "names" THEN NameItem(e) ELSE EntryItem(e)

\* C13: an export iterator yields exactly as many items as the export count
\* read at its construction, item i made of the i-th entry of the export
\* table, in table order for names and entries alike; it yields nothing
\* after the last item (its end is reported only after count items), and the
\* count stays the one of its construction however the table grows.
C13_IteratorYieldsCountItems ==
    iter.kind # "none" =>
        LET table == mods[iter.ptr].exports
        IN /\ iter.count <= Len(table)
           /\ Len(iter.yielded) = iter.index
           /\ iter.index <= iter.count
           /\ \A i \in 1..Len(iter.yielded) :
                  /\ iter.yielded[i].idx = i - 1
                  /\ iter.yielded[i].item = ItemOf(iter.kind, table[i])
           /\ iter.ended => Len(iter.yielded) = iter.count

\* the count of construction is kept: a names iterator that ended after one
\* item on a table that has grown to two entries since
C13_Witness ==
    /\ iter.kind = "names"
    /\ iter.ended
    /\ iter.count = 1
    /\ Len(iter.yielded) = 1
    /\ Len(mods[iter.ptr].exports) = 2

\* C14 as stated: the receiver of a Constructor call is never converted to a
\* native value or passed to the native callable, whatever the shape.
C14_ConstructorTakesNoReceiver ==
    shape.kind = "Constructor" =>
        /\ native.this = NoNative
        /\ \A i \in 1..Len(log) : log[i].slot # "this"

\* C14 amended: every Constructor call first uses the receiver to choose the
\* prototype source (a function value: its own prototype, anything else: the
\* class prototype); a Constructor shape without a receiver parameter never
\* converts the receiver or passes it on; a Constructor shape with a receiver
\* parameter converts the receiver after the prototype is resolved and passes
\* the converted receiver to the native callable.
C14_ConstructorReceiverByShape ==
    shape.kind = "Constructor" =>
        /\ log # <<>> =>
              /\ log[1].slot = "proto"
              /\ log[1].ev = IF thisVal.tag = "Function" THEN "get_prototype"
                             ELSE "class_prototype"
        /\ ~shape.this =>
              /\ native.this = NoNative
              /\ \A i \in 1..Len(log) : log[i].slot # "this"
        /\ shape.this =>
              /\ \A i \in 1..Len(log) :
                    log[i].slot = "this" =>
                        i > 1 /\ log[i].ev = "from_js" /\ log[i].val = thisVal
              /\ invoked = 1 =>
                    /\ FromJsThis(thisVal).ok
                    /\ native.this = FromJsThis(thisVal).val
                    /\ \E i \in 1..Len(log) : log[i].slot = "this"

\* a Constructor with a receiver parameter ran its native callable with the
\* converted new-target function
C14_Witness ==
    /\ Done
    /\ shape.kind = "Constructor"
    /\ shape.this
    /\ thisVal = Val("Function", 1)
    /\ invoked = 1
    /\ native.this = Nat32("obj", 1)
    /\ result.ok

\* C15: a Constructor call resolves the prototype first, once, before any
\* argument is pulled or converted and before the native callable runs; when
\* the resolution fails the call ends with that error after this one step,
\* with the cursor untouched and the native callable not run.
C15_PrototypeResolvedFirst ==
    shape.kind = "Constructor" =>
        /\ log # <<>> => log[1].slot = "proto"
        /\ \A i \in 2..Len(log) : log[i].slot # "proto"
        /\ proto = 0 =>
              /\ args = supplied
              /\ invoked = 0
              /\ native.pos = <<>> /\ native.var = <<>> /\ native.this = NoNative
        /\ (Done /\ ~PrototypeResolves) =>
              /\ result = Err(ProtoError)
              /\ Len(log) = 1
              /\ args = supplied
              /\ invoked = 0

\* a Constructor call with arguments at hand that ended on the prototype
C15_Witness ==
    /\ Done
    /\ shape.kind = "Constructor"
    /\ LEN(shape) >= 1
    /\ Len(supplied) >= LEN(shape)
    /\ SuppliedConvert(LEN(shape))
    /\ ~PrototypeResolves
    /\ result = Err(ProtoError)
    /\ args = supplied

PostDone == func.pc = "done"

\* C16 as stated: the post hook of a non-constructor adapter leaves the
\* function unchanged and succeeds; the Constructor's post hook, when it
\* succeeds, leaves the function construct-capable with the class prototype,
\* and when it fails it leaves the function as it was before the hook ran.
C16_PostAllOrNothing ==
    /\ shape.kind # "Constructor" =>
          /\ func.f = FreshFunction
          /\ PostDone => func.result = Ok(NoValue)
    /\ (shape.kind = "Constructor" /\ PostDone) =>
          IF func.result.ok
          THEN func.f = [constructor |-> TRUE, prototype |-> classProto]
          ELSE func.f = FreshFunction

\* C16 amended: the post hook of a non-constructor adapter leaves the
\* function unchanged and succeeds; the Constructor's post hook fails exactly
\* when the class prototype cannot be resolved, with that error; when it
\* succeeds the function is construct-capable and its prototype is the class
\* prototype; when it fails the function is already marked construct-capable
\* and only its prototype is as it was before the hook ran.
C16_PostEffects ==
    /\ shape.kind # "Constructor" =>
          /\ func.f = FreshFunction
          /\ PostDone => func.result = Ok(NoValue)
    /\ (shape.kind = "Constructor" /\ PostDone) =>
          /\ func.result.ok <=> classProto # 0
          /\ IF func.result.ok
             THEN func.f = [constructor |-> TRUE, prototype |-> classProto]
             ELSE /\ func.result = Err(ProtoError)
                  /\ func.f = [FreshFunction EXCEPT !.constructor = TRUE]

\* a Constructor's post hook that failed on the class prototype
C16_Witness ==
    /\ shape.kind = "Constructor"
    /\ PostDone
    /\ func.result = Err(ProtoError)
    /\ func.f.constructor

\* C17: Module::init returns the null handle (0) when the raw name is not
\* UTF-8, without calling new, creating a record or running a hook, and when
\* new returns an error (name encoding, allocation, before-init hook);
\* otherwise it returns the handle of the module new created, whose
\* before-init hook has run and returned.
C17_InitReturnsHandleOrNull ==
    entry.pc = "returned" =>
        IF ~Utf8Ok(entry.raw)
        THEN /\ entry.ret = 0
             /\ Len(mods) = entry.n0
             /\ lastOp = Op("init", 0, entry.raw, 0, NoResult)
        ELSE /\ lastOp.op = "new"
             /\ lastOp.name = entry.raw
             /\ IF lastOp.result.ok
                THEN /\ entry.ret = entry.n0 + 1
                     /\ entry.ret = Len(mods)
                     /\ lastOp.result = Ok(Nat32("module", entry.ret))
                     /\ mods[entry.ret].name = entry.raw
                     /\ mods[entry.ret].beforeRuns = 1
                     /\ mods[entry.ret].beforeDone
                     /\ mods[entry.ret].createdOk
                ELSE /\ entry.ret = 0
                     /\ lastOp.result \in {Err(NulError), Err(AllocationError),
                                           Err(HookError)}

\* init returned the handle of a module with a two-byte UTF-8 name and one
\* declared export
C17_Witness ==
    /\ entry.pc = "returned"
    /\ entry.raw = <<195, 169>>
    /\ entry.ret = 1
    /\ mods[1].beforeDone
    /\ Len(mods[1].exports) = 1

\* C18: module creation is all-or-nothing: after a creation that returned an
\* error no record of it is registered with the engine, so the engine never
\* calls the instantiation callback or the after-init hook of such a module.
C18_CreationAllOrNothing ==
    /\ (lastOp.op = "new" /\ ~lastOp.result.ok) =>
          \A m \in 1..Len(mods) : mods[m].created => mods[m].createdOk
    /\ \A m \in 1..Len(mods) :
          (mods[m].created /\ ~mods[m].createdOk) =>
              /\ ~mods[m].linked
              /\ mods[m].callbacks = 0
              /\ mods[m].afterRuns = 0

\* every step before the native callable succeeds
PreStepsSucceed ==
    /\ PrototypeResolves
    /\ ReceiverConverts
    /\ Len(supplied) >= LEN(shape)
    /\ SuppliedConvert(LEN(shape))
    /\ shape.varargs => \A i \in 1..Len(Trailing) : FromJsArg(Trailing[i]).ok

Invocations == Cardinality({i \in 1..Len(log) : log[i].ev = "invoke"})

\* C19: a call runs the native callable at most once: once when the
\* prototype resolution (Constructor), the receiver conversion, every
\* positional pull and conversion and the variadic conversion all succeed,
\* never when one of them fails; the return conversion and the Constructor's
\* object check happen, and fail, only after the native callable has run.
C19_NativeInvokedAtMostOnce ==
    /\ invoked \in {0, 1}
    /\ invoked = Invocations
    /\ invoked = 1 => PreStepsSucceed
    /\ Done => (invoked = 1 <=> PreStepsSucceed)
    /\ \A i \in 1..Len(log) :
          log[i].ev \in {"into_js", "set_prototype", "check"} =>
              \E k \in 1..(i - 1) : log[k].ev = "invoke"
    /\ (Done /\ ~result.ok /\ (result.err.kind = "IntoJs" \/ result.err = SetPrototypeError))
          => invoked = 1

\* a call with a variadic capture whose native callable ran once and whose
\* return value did not convert
C19_Witness ==
    /\ Done
    /\ shape.varargs
    /\ Len(supplied) > LEN(shape)
    /\ invoked = 1
    /\ ~IntoJs(ret).ok
    /\ result = Err(IntoJs(ret).err)

\* the first LEN supplied arguments
FirstLen(sup) ==
    SubSeq(sup, 1, IF Len(sup) < LEN(shape) THEN Len(sup) ELSE LEN(shape))

\* the result of a call of a shape without variadic capture, as a function of
\* the supplied arguments
Outcome(sup) ==
    LET first == FirstLen(sup)
        r == IntoJs(ret)
    IN IF ~PrototypeResolves THEN Err(ProtoError)
       ELSE IF ~ReceiverConverts THEN Err(FromJsThis(thisVal).err)
       ELSE IF \E i \in 1..Len(first) : ~FromJsArg(first[i]).ok
       THEN Err(FromJsArg(first[FirstBad(first)]).err)
       ELSE IF Len(sup) < LEN(shape) THEN Err(not_enough_args)
       ELSE IF ~r.ok THEN Err(r.err)
       ELSE IF shape.kind # "Constructor" THEN Ok(r.val)
       ELSE IF r.val.tag # "Object" THEN Err(MkError("IntoJs", "value", CLASS_NAME, ""))
       ELSE IF ~setProtoOk THEN Err(SetPrototypeError)
       ELSE Ok(r.val)

\* C20: for a shape without variadic capture, arguments beyond LEN are not an
\* error: only the first LEN cursor elements are pulled and converted, the
\* surplus stays in the cursor unconverted, and the result is the result of
\* the call with the first LEN arguments alone.
C20_SurplusIgnored ==
    ~shape.varargs =>
        /\ Done => result = Outcome(supplied)
        /\ Outcome(supplied) = Outcome(FirstLen(supplied))
        /\ \A i \in 1..Len(log) :
              /\ log[i].slot # "var"
              /\ log[i].slot = "arg" =>
                    /\ log[i].idx <= LEN(shape)
                    /\ log[i].ev = "from_js" => log[i].val = supplied[log[i].idx]
        /\ Len(supplied) > LEN(shape) =>
              /\ Len(supplied) - Len(args) <= LEN(shape)
              /\ Trailing = SubSeq(args, Len(args) - Len(Trailing) + 1, Len(args))
              /\ Done => result # Err(not_enough_args)
              /\ invoked = 1 => args = Trailing /\ Len(native.pos) = LEN(shape)
        /\ native.var = <<>> /\ ~native.hasVar

\* a successful call whose surplus argument would not convert
C20_Witness ==
    /\ Done
    /\ ~shape.varargs
    /\ LEN(shape) >= 1
    /\ Len(supplied) > LEN(shape)
    /\ result.ok
    /\ args # <<>>
    /\ \E i \in 1..Len(args) : ~FromJsArg(args[i]).ok

\* a call of next on the live iterator (a construction leaves a fresh one)
NextCalled == iter' # iter /\ (iter'.ended \/ iter'.yielded # <<>>)

\* C21: an export iterator always has 0 <= index <= count; a call of next
\* that yields an item advances index by exactly one and the item is made of
\* the entry at the old index, also when its name or value does not convert:
\* the error item neither ends nor repeats the iteration; a call that yields
\* nothing happens only at index = count and leaves index as it is.
C21_IndexAdvancesByOne ==
    [][/\ 0 <= iter'.index /\ iter'.index <= iter'.count
       /\ NextCalled =>
             /\ iter'.kind = iter.kind /\ iter'.ptr = iter.ptr
             /\ iter'.count = iter.count
             /\ IF iter.index < iter.count
                THEN /\ iter'.index = iter.index + 1
                     /\ ~iter'.ended
                     /\ Len(iter'.yielded) = Len(iter.yielded) + 1
                     /\ SubSeq(iter'.yielded, 1, Len(iter.yielded)) = iter.yielded
                     /\ iter'.yielded[Len(iter'.yielded)] =
                           [idx |-> iter.index,
                            item |-> ItemOf(iter.kind,
                                            mods[iter.ptr].exports[iter.index + 1])]
                ELSE /\ iter'.ended
                     /\ iter'.index = iter.index
                     /\ iter'.yielded = iter.yielded
      ]_vars

\* an entries iterator that yielded an error item for the first entry and
\* then the second entry
C21_Witness ==
    /\ iter.kind = "entries"
    /\ iter.index = 2
    /\ Len(iter.yielded) = 2
    /\ ~iter.yielded[1].item.ok
    /\ iter.yielded[2].item.ok
    /\ iter.yielded[2].idx = 1
====
